---- MODULE Spec2Model ----
(***************************************************************************)
(* Model of "Advance Joins/joins.py": a Streamlit script that loads two    *)
(* spreadsheets, checks that the selected join columns share a key,        *)
(* merges the two tables with pandas.merge and offers the result for       *)
(* download.                                                               *)
(*                                                                         *)
(* A table is represented by its selected join column (a sequence of       *)
(* cells); a row is identified by its position in that sequence.  A row of *)
(* the merged table is a pair <<i, j>>: row i of the first table next to   *)
(* row j of the second one, 0 standing for "all columns of that side are   *)
(* null".                                                                  *)
(***************************************************************************)
EXTENDS Integers, Sequences, FiniteSets, TLC

\* ---------------------------------------------------------------- bounds
MaxRows1 == 3
MaxRows2 == 2

\* ----------------------------------------------------------------- cells
\* A cell is null (blank), an integral number or a text (sequence of chars).
Null == [k |-> "null", n |-> 0, s |-> <<>>]
Num(x) == [k |-> "num", n |-> x, s |-> <<>>]
Txt(t) == [k |-> "str", n |-> 0, s |-> t]

Cells == {Null, Num(1), Num(2), Txt(<<"1">>), Txt(<<"1", " ">>)}

IsNull(c) == c.k = "null"

Idx(col) == [p \in 1..Len(col) |-> p]

RECURSIVE Concat(_)
Concat(ss) == IF ss = <<>> THEN <<>> ELSE Head(ss) \o Concat(Tail(ss))

Columns(max) == UNION {[1..len -> Cells] : len \in 0..max}

\* --------------------------------------------------------- pandas dtypes
\* dtype pandas gives a column read from a sheet: int64 when every cell is
\* an integer, float64 when integers are mixed with blanks (or all blank),
\* object when a text is present or the column has no rows.
Dtype(col) ==
  IF Len(col) = 0 THEN "object"
  ELSE IF \E p \in 1..Len(col) : col[p].k = "str" THEN "object"
  ELSE IF \E p \in 1..Len(col) : col[p].k = "null" THEN "float64"
  ELSE "int64"

IsNumeric(col) == Dtype(col) \in {"int64", "float64"}

\* lib.infer_dtype(col, skipna=False) of an object column
Inferred(col) ==
  IF Len(col) = 0 THEN "empty"
  ELSE IF \A p \in 1..Len(col) : col[p].k = "str" THEN "string"
  ELSE IF \E p \in 1..Len(col) : col[p].k = "num" THEN "mixed-integer"
  ELSE "mixed"

\* ------------------------------------------------------------ astype(str)
Digit(x) == IF x = 0 THEN "0" ELSE IF x = 1 THEN "1" ELSE IF x = 2 THEN "2"
            ELSE IF x = 3 THEN "3" ELSE IF x = 4 THEN "4" ELSE IF x = 5 THEN "5"
            ELSE IF x = 6 THEN "6" ELSE IF x = 7 THEN "7" ELSE IF x = 8 THEN "8"
            ELSE "9"

\* str() of one non-null cell of a column of the given dtype
AsStr(c, dtype) ==
  IF c.k = "str" THEN c.s
  ELSE IF dtype = "float64" THEN <<Digit(c.n), ".", "0">>
  ELSE <<Digit(c.n)>>

\* col.dropna()
DropNa(col) == SelectSeq(col, LAMBDA c : ~IsNull(c))

RECURSIVE LStrip(_)
LStrip(t) == IF t # <<>> /\ Head(t) = " " THEN LStrip(Tail(t)) ELSE t

RECURSIVE RStrip(_)
RStrip(t) == IF t # <<>> /\ t[Len(t)] = " " THEN RStrip(SubSeq(t, 1, Len(t) - 1)) ELSE t

\* str.strip()
Strip(t) == RStrip(LStrip(t))

\* keys with the surrounding whitespace trimmed
KeysTrimmed(col) ==
  {Strip(AsStr(SelectSeq(col, LAMBDA c : ~IsNull(c))[p], Dtype(col))) :
     p \in 1..Len(SelectSeq(col, LAMBDA c : ~IsNull(c)))}

\* set(col.dropna().astype(str).unique())
\* (dropna keeps the dtype of the column it is applied to)
Keys(col) == {AsStr(DropNa(col)[p], Dtype(col)) : p \in 1..Len(DropNa(col))}

\* common = set(df1_keys) & set(df2_keys)
Common(c1, c2) == Keys(c1) \cap Keys(c2)

\* --------------------------------------------------------------- pd.merge
\* SQL key equality: a missing key matches nothing
KeyEqSql(a, b) == a.k # "null" /\ a.k = b.k /\ a.n = b.n /\ a.s = b.s

\* Key equality of pandas.merge: on the native values; a missing key matches
\* a missing key; a number never equals a text.
KeyEq(a, b) == a.k = b.k /\ a.n = b.n /\ a.s = b.s

BoolTypes == {"integer", "mixed-integer", "boolean", "empty"}
StringTypes == {"string", "unicode", "mixed", "bytes", "empty"}

InferredKey(col) ==
  IF Dtype(col) = "int64" THEN "integer"
  ELSE IF Dtype(col) = "float64" THEN "floating"
  ELSE Inferred(col)

\* _maybe_coerce_merge_keys: ValueError "You are trying to merge on int64 and
\* object columns" when a numeric column meets an object column of texts.
MergeRaises(c1, c2) ==
  IF (Len(c1) = 0) # (Len(c2) = 0) THEN FALSE
  ELSE IF Dtype(c1) = Dtype(c2) THEN FALSE
  ELSE IF IsNumeric(c1) /\ IsNumeric(c2) THEN FALSE
  ELSE IF InferredKey(c1) \in BoolTypes /\ InferredKey(c2) \in BoolTypes THEN FALSE
  ELSE \/ InferredKey(c1) \in StringTypes /\ InferredKey(c2) \notin StringTypes
       \/ InferredKey(c2) \in StringTypes /\ InferredKey(c1) \notin StringTypes

\* only the first matching row: a merge that deduplicates the key groups
MatchesInFirst(col, c) ==
  LET m == SelectSeq(Idx(col), LAMBDA p : KeyEq(c, col[p]))
  IN IF m = <<>> THEN <<>> ELSE <<Head(m)>>

\* positions of the rows of col whose key equals c, in row order
MatchesIn(col, c) == SelectSeq(Idx(col), LAMBDA p : KeyEq(c, col[p]))

\* a left merge that loses the rows without a match
LeftRowsMatchedOnly(c1, c2) ==
  Concat([i \in 1..Len(c1) |->
            LET m == SelectSeq(Idx(c2), LAMBDA p : KeyEq(c1[i], c2[p]))
            IN [q \in 1..Len(m) |-> <<i, m[q]>>]])

\* how="left": the first table's rows in order, each with its matches
LeftRows(c1, c2) ==
  Concat([i \in 1..Len(c1) |->
            LET m == MatchesIn(c2, c1[i])
            IN IF m = <<>> THEN << <<i, 0>> >>
               ELSE [q \in 1..Len(m) |-> <<i, m[q]>>]])

\* a right merge that emits the matched rows in the first table's order and
\* appends the rows found only in the second table
RightRowsAppended(c1, c2) ==
  Concat([i \in 1..Len(c1) |->
            LET m == SelectSeq(Idx(c2), LAMBDA p : KeyEq(c1[i], c2[p]))
            IN [q \in 1..Len(m) |-> <<i, m[q]>>]])
  \o Concat([j \in 1..Len(c2) |->
            IF \E i \in 1..Len(c1) : KeyEq(c1[i], c2[j]) THEN <<>>
            ELSE << <<0, j>> >>])

\* how="right": the second table's rows in order, each with its matches
RightRows(c1, c2) ==
  Concat([j \in 1..Len(c2) |->
            LET m == MatchesIn(c1, c2[j])
            IN IF m = <<>> THEN << <<0, j>> >>
               ELSE [q \in 1..Len(m) |-> <<m[q], j>>]])

\* how="inner", order of the left keys preserved
InnerRows(c1, c2) ==
  Concat([i \in 1..Len(c1) |->
            LET m == MatchesIn(c2, c1[i])
            IN [q \in 1..Len(m) |-> <<i, m[q]>>]])

\* rows of one key group: the cartesian product of the two sides' rows, or
\* the rows of the only side that has the key (outer only)
GroupRows(c1, c2, key, outer) ==
  LET l == MatchesIn(c1, key)
      r == MatchesIn(c2, key)
  IN IF l = <<>> THEN (IF outer THEN [b \in 1..Len(r) |-> <<0, r[b]>>] ELSE <<>>)
     ELSE IF r = <<>> THEN (IF outer THEN [a \in 1..Len(l) |-> <<l[a], 0>>] ELSE <<>>)
     ELSE Concat([a \in 1..Len(l) |-> [b \in 1..Len(r) |-> <<l[a], r[b]>>]])

\* _factorize_keys(sort=False): one group per distinct key, numbered in order
\* of first appearance over the left then the right keys, missing keys last
FactorizedKeys(c1, c2) ==
  LET K == c1 \o c2
      first == SelectSeq(Idx(K), LAMBDA p : \A q \in 1..(p - 1) : ~KeyEq(K[q], K[p]))
      keys == [g \in 1..Len(first) |-> K[first[g]]]
  IN SelectSeq(keys, LAMBDA c : ~IsNull(c)) \o SelectSeq(keys, IsNull)

CharCode(ch) == IF ch = " " THEN 32 ELSE IF ch = "." THEN 46 ELSE IF ch = "0" THEN 48
                ELSE IF ch = "1" THEN 49 ELSE IF ch = "2" THEN 50 ELSE 51

RECURSIVE LexLess(_, _)
LexLess(s, t) ==
  IF t = <<>> THEN FALSE
  ELSE IF s = <<>> THEN TRUE
  ELSE IF Head(s) # Head(t) THEN CharCode(Head(s)) < CharCode(Head(t))
  ELSE LexLess(Tail(s), Tail(t))

\* sort order of keys: numbers, then texts, missing keys last
KeyLess(a, b) ==
  IF a.k = "null" THEN FALSE
  ELSE IF b.k = "null" THEN TRUE
  ELSE IF a.k # b.k THEN a.k = "num"
  ELSE IF a.k = "num" THEN a.n < b.n
  ELSE LexLess(a.s, b.s)

\* libjoin.inner_join / full_outer_join: group after group
GroupedRows(c1, c2, keys, outer) ==
  Concat([g \in 1..Len(keys) |-> GroupRows(c1, c2, keys[g], outer)])

\* The row order of inner and outer merges differs between pandas releases
\* (the repository pins none): "grouped" emits the key groups in order of
\* first appearance, "documented" keeps the left order for inner and sorts
\* the keys for outer.
PandasOrders == {"grouped", "documented"}

\* pd.merge(df1, df2, how=how, left_on=..., right_on=...) when it returns
Merge(c1, c2, how, order) ==
  IF how = "left" THEN LeftRows(c1, c2)
  ELSE IF how = "right" THEN RightRows(c1, c2)
  ELSE IF how = "inner" THEN
    (IF order = "documented" THEN InnerRows(c1, c2)
     ELSE GroupedRows(c1, c2, FactorizedKeys(c1, c2), FALSE))
  ELSE
    (IF order = "documented"
     THEN GroupedRows(c1, c2, SortSeq(FactorizedKeys(c1, c2), KeyLess), TRUE)
     ELSE GroupedRows(c1, c2, FactorizedKeys(c1, c2), TRUE))

\* ------------------------------------------------------------------ state
JoinTypes == {"inner", "left", "right", "outer"}

NoFile == [kind |-> "none", col |-> <<>>]
Corrupt == [kind |-> "corrupt", col |-> <<>>]
Sheet(col) == [kind |-> "sheet", col |-> col]

Files(max) == {NoFile, Corrupt} \cup {Sheet(col) : col \in Columns(max)}

NoTable == [ok |-> FALSE, col |-> <<>>]
Table(col) == [ok |-> TRUE, col |-> col]

NoMerged == [ok |-> FALSE, rows |-> <<>>]
Merged(rows) == [ok |-> TRUE, rows |-> rows]

NoDownload == [offered |-> FALSE, file_name |-> "", sheet_name |-> "", data |-> <<>>]

VARIABLES file1, file2, join_type, phase, df1, df2, common, merged_df,
          download, message

vars == <<file1, file2, join_type, phase, df1, df2, common, merged_df,
          download, message>>

inputs == <<file1, file2, join_type>>

Init ==
  /\ file1 \in Files(MaxRows1)
  /\ file2 \in Files(MaxRows2)
  /\ join_type \in JoinTypes
  /\ phase = "start"
  /\ df1 = NoTable
  /\ df2 = NoTable
  /\ common = {}
  /\ merged_df = NoMerged
  /\ download = NoDownload
  /\ message = "none"

\* `if file1 and file2:` is false: the script ends without processing
Idle ==
  /\ phase = "start"
  /\ file1.kind = "none" \/ file2.kind = "none"
  /\ phase' = "idle"
  /\ UNCHANGED <<inputs, df1, df2, common, merged_df, download, message>>

\* read_excel_with_header on both files; a parse error of the first file
\* leaves df2 unread
Load ==
  /\ phase = "start"
  /\ file1.kind # "none" /\ file2.kind # "none"
  /\ IF file1.kind = "corrupt"
     THEN /\ phase' = "error" /\ message' = "error"
          /\ UNCHANGED <<df1, df2>>
     ELSE IF file2.kind = "corrupt"
     THEN /\ phase' = "error" /\ message' = "error"
          /\ df1' = Table(file1.col)
          /\ UNCHANGED df2
     ELSE /\ phase' = "loaded" /\ message' = "loaded"
          /\ df1' = Table(file1.col)
          /\ df2' = Table(file2.col)
  /\ UNCHANGED <<inputs, common, merged_df, download>>

\* a gate that never closes
NoOverlapNever(cm) == Cardinality(cm) < 0

\* `if len(common) == 0:`
NoOverlap(cm) == Cardinality(cm) = 0

\* Smart Validation Before Join: st.stop() when no key is shared
Validate ==
  /\ phase = "loaded"
  /\ common' = Common(df1.col, df2.col)
  /\ IF NoOverlap(common')
     THEN /\ phase' = "stopped" /\ message' = "no_overlap"
     ELSE /\ phase' = "validated" /\ message' = "found"
  /\ UNCHANGED <<inputs, df1, df2, merged_df, download>>

\* Perform Join: pd.merge; its ValueError is caught by `except Exception`
Join ==
  /\ phase = "validated"
  /\ IF MergeRaises(df1.col, df2.col)
     THEN /\ phase' = "error" /\ message' = "error"
          /\ UNCHANGED merged_df
     ELSE /\ \E order \in PandasOrders :
               merged_df' = Merged(Merge(df1.col, df2.col, join_type, order))
          /\ phase' = "joined" /\ message' = "joined"
  /\ UNCHANGED <<inputs, df1, df2, common, download>>

\* convert_df_to_excel(merged_df): the rows written to sheet MergedData
convert_df_to_excel(df) == df.rows

\* a file name that does not carry the join type
FileNameFixed(how) == "joined_data.xlsx"

\* file_name=f"{join_type}_joined_data.xlsx"
FileName(how) == how \o "_joined_data.xlsx"

\* Download Button; a failure of the writer is caught by `except Exception`
Export ==
  /\ phase = "joined"
  /\ \E writable \in BOOLEAN :
       IF writable
       THEN /\ download' = [offered |-> TRUE, file_name |-> FileName(join_type),
                            sheet_name |-> "MergedData",
                            data |-> convert_df_to_excel(merged_df)]
            /\ phase' = "download" /\ message' = "ready"
       ELSE /\ phase' = "error" /\ message' = "error"
            /\ UNCHANGED download
  /\ UNCHANGED <<inputs, df1, df2, common, merged_df>>

\* a rerun that keeps the objects of the previous run (as st.session_state would)
RerunKeeps ==
  /\ phase \in {"idle", "stopped", "error", "download"}
  /\ \E how \in JoinTypes : join_type' = how
  /\ phase' = "start"
  /\ message' = "none"
  /\ UNCHANGED <<file1, file2, df1, df2, common, merged_df, download>>

\* A widget interaction (here: the join type selectbox) makes Streamlit run
\* the script again from the top with a fresh namespace.
Rerun ==
  /\ phase \in {"idle", "stopped", "error", "download"}
  /\ \E how \in JoinTypes : join_type' = how
  /\ phase' = "start"
  /\ df1' = NoTable /\ df2' = NoTable
  /\ common' = {}
  /\ merged_df' = NoMerged
  /\ download' = NoDownload
  /\ message' = "none"
  /\ UNCHANGED <<file1, file2>>

Next == Idle \/ Load \/ Validate \/ Join \/ Export \/ Rerun

Spec == Init /\ [][Next]_vars

\* ------------------------------------------------------------- properties
Rows == merged_df.rows
Col1 == df1.col
Col2 == df2.col

\* the validation step of this run has been executed
Validated == phase \in {"stopped", "validated", "joined", "download"}

\* number of rows of the first / second column whose key is v
Count(col, v) == Cardinality({p \in 1..Len(col) : col[p] = v})

\* row p of the merged table carries key v (in either key column)
RowHasKey(p, v) ==
  \/ Rows[p][1] # 0 /\ Col1[Rows[p][1]] = v
  \/ Rows[p][2] # 0 /\ Col2[Rows[p][2]] = v

RowsWithKey(v) == Cardinality({p \in 1..Len(Rows) : RowHasKey(p, v)})

\* C1: a merged table or a download exists, or the join step is reached, only
\* in a run whose validation step found a non-empty set of shared keys; a run
\* whose shared-key set is empty has neither.
OverlapGate ==
  /\ (merged_df.ok \/ download.offered \/ phase \in {"validated", "joined", "download"})
       => /\ df1.ok /\ df2.ok
          /\ common # {}
          /\ common = Common(Col1, Col2)
  /\ (Validated /\ common = {}) => (phase = "stopped" /\ ~merged_df.ok /\ ~download.offered)

OverlapGateWitness ==
  /\ phase = "stopped" /\ common = {}
  /\ Len(Col1) > 0 /\ Len(Col2) > 0
  /\ ~merged_df.ok /\ ~download.offered

\* text form of the key of row p of a column, as the validator computes it
KeyText(col, p) == AsStr(col[p], Dtype(col))

\* C2: in a joined table, row i of the first table is paired with row j of
\* the second one exactly when the text forms of their (non-null) keys are
\* equal, and every shared key of the validator has a matched row in the
\* inner join.
TextKeyEquality ==
  merged_df.ok =>
    /\ join_type = "inner" =>
         \A i \in 1..Len(Col1), j \in 1..Len(Col2) :
           (~IsNull(Col1[i]) /\ ~IsNull(Col2[j])) =>
             ((\E p \in 1..Len(Rows) : Rows[p] = <<i, j>>)
                <=> KeyText(Col1, i) = KeyText(Col2, j))
    /\ join_type = "inner" =>
         \A t \in common :
           \E p \in 1..Len(Rows) : KeyText(Col1, Rows[p][1]) = t

\* C3: for every key value v found k times in the first and m times in the
\* second join column, the inner join has exactly k*m rows with key v, and so
\* have the left, right and outer joins when k >= 1 and m >= 1.
RowMultiplicity ==
  merged_df.ok =>
    \A v \in Cells :
      LET k == Count(Col1, v)
          m == Count(Col2, v)
      IN /\ join_type = "inner" => RowsWithKey(v) = k * m
         /\ (k >= 1 /\ m >= 1) => RowsWithKey(v) = k * m

RowMultiplicityWitness ==
  /\ merged_df.ok
  /\ \E v \in Cells : Count(Col1, v) >= 2 /\ Count(Col2, v) >= 2 /\ RowsWithKey(v) = 4

\* C4: in a left join every row of the first table appears at least once,
\* and a row whose key matches no row of the second table appears exactly
\* once, with the second table's columns null.
LeftJoinComplete ==
  (merged_df.ok /\ join_type = "left") =>
    \A i \in 1..Len(Col1) :
      /\ \E p \in 1..Len(Rows) : Rows[p][1] = i
      /\ (\A j \in 1..Len(Col2) : Col1[i] # Col2[j])
           => /\ Cardinality({p \in 1..Len(Rows) : Rows[p][1] = i}) = 1
              /\ \E p \in 1..Len(Rows) : Rows[p] = <<i, 0>>

LeftJoinCompleteWitness ==
  /\ merged_df.ok /\ join_type = "left"
  /\ \E i \in 1..Len(Col1) : \A j \in 1..Len(Col2) : Col1[i] # Col2[j]
  /\ \E i \in 1..Len(Col1) : Count(Col2, Col1[i]) >= 2

\* C5 (as claimed): for inner, left and full-outer joins the rows driven by
\* the first table follow its row order, and for full-outer and right joins
\* the rows found only in the second table come after all of them, in the
\* second table's row order.
RowOrderClaim ==
  merged_df.ok =>
    /\ join_type \in {"inner", "left", "outer"} =>
         \A p, q \in 1..Len(Rows) :
           (p < q /\ Rows[p][1] # 0 /\ Rows[q][1] # 0) => Rows[p][1] <= Rows[q][1]
    /\ join_type \in {"outer", "right"} =>
         \A p, q \in 1..Len(Rows) :
           /\ (Rows[p][1] = 0 /\ Rows[q][1] # 0) => q < p
           /\ (p < q /\ Rows[p][1] = 0 /\ Rows[q][1] = 0) => Rows[p][2] < Rows[q][2]

\* C5 (amended): a left join follows the first table's row order (the matches
\* of one row in the second table's order); a right join follows the second
\* table's row order (the matches of one row in the first table's order), the
\* rows found only in the second table staying at their place.
RowOrderLeftRight ==
  merged_df.ok =>
    /\ join_type = "left" =>
         \A p, q \in 1..Len(Rows) :
           p < q => \/ Rows[p][1] < Rows[q][1]
                    \/ Rows[p][1] = Rows[q][1] /\ Rows[p][2] < Rows[q][2]
    /\ join_type = "right" =>
         \A p, q \in 1..Len(Rows) :
           p < q => \/ Rows[p][2] < Rows[q][2]
                    \/ Rows[p][2] = Rows[q][2] /\ Rows[p][1] < Rows[q][1]

RowOrderLeftRightWitness ==
  /\ merged_df.ok /\ join_type = "right"
  /\ \E p, q \in 1..Len(Rows) : p < q /\ Rows[p][1] = 0 /\ Rows[q][1] # 0

\* C6: when the validated overlap of two tables is empty, the inner join of
\* the two has no row and the full-outer join has len(A) + len(B) rows.
DegenerateSizes ==
  (phase = "stopped" /\ ~MergeRaises(Col1, Col2)) =>
    \A order \in PandasOrders :
      /\ Len(Merge(Col1, Col2, "inner", order)) = 0
      /\ Len(Merge(Col1, Col2, "outer", order)) = Len(Col1) + Len(Col2)

\* C7: an error of the load, the join or the export ends the run in the error
\* state with a message and without a download, and the next run starts with
\* nothing of the failed run.
ErrorContained ==
  /\ [](phase = "error" => (message = "error" /\ ~download.offered))
  /\ [][(phase = "start" /\ (file1.kind = "corrupt" \/ file2.kind = "corrupt")
           /\ file1.kind # "none" /\ file2.kind # "none") => phase' = "error"]_vars
  /\ [][(phase = "validated" /\ MergeRaises(Col1, Col2)) => phase' = "error"]_vars
  /\ [][phase = "error" =>
          /\ phase' = "start"
          /\ df1' = NoTable /\ df2' = NoTable
          /\ common' = {}
          /\ merged_df' = NoMerged
          /\ download' = NoDownload
          /\ message' = "none"]_vars

ErrorContainedWitness ==
  /\ phase = "error" /\ message = "error"
  /\ merged_df.ok /\ ~download.offered

\* C8 (as claimed): the validator's result is the intersection of the two
\* sets of trimmed text forms of the non-null keys.
OverlapTrimmed ==
  Validated => common = KeysTrimmed(Col1) \cap KeysTrimmed(Col2)

\* a non-null key of the column has text form t
HasText(col, t) == \E p \in 1..Len(col) : ~IsNull(col[p]) /\ KeyText(col, p) = t

\* C8 (amended): a text is in the validator's result exactly when it is the
\* untrimmed text form of a non-null key of both columns; the result is the
\* same with the two columns swapped.
OverlapUntrimmed ==
  Validated =>
    /\ \A t \in common \cup {KeyText(Col1, p) : p \in 1..Len(Col1)}
                       \cup {KeyText(Col2, p) : p \in 1..Len(Col2)} :
         t \in common <=> (HasText(Col1, t) /\ HasText(Col2, t))
    /\ common = Common(Col2, Col1)

OverlapUntrimmedWitness ==
  /\ phase = "stopped" /\ common = {}
  /\ \E i \in 1..Len(Col1), j \in 1..Len(Col2) :
       /\ Col1[i].k = "str" /\ Col2[j].k = "str"
       /\ Col1[i].s # Col2[j].s
       /\ Strip(Col1[i].s) = Strip(Col2[j].s)

\* C9 (as claimed): the join kind passed to a join is one of inner, left,
\* right, full_outer and the download is named after it.
JoinKindClaim ==
  /\ (merged_df.ok \/ download.offered) =>
       join_type \in {"inner", "left", "right", "full_outer"}
  /\ download.offered => download.file_name = join_type \o "_joined_data" \o ".xlsx"

\* C9 (amended): the join kind is one of inner, left, right, outer and the
\* download of a completed join is named <kind>_joined_data.xlsx.
JoinKindOuter ==
  /\ join_type \in {"inner", "left", "right", "outer"}
  /\ download.offered =>
       /\ merged_df.ok
       /\ download.file_name = join_type \o "_joined_data" \o ".xlsx"
       /\ download.file_name \in {"inner_joined_data.xlsx", "left_joined_data.xlsx",
                                  "right_joined_data.xlsx", "outer_joined_data.xlsx"}

JoinKindOuterWitness ==
  /\ download.offered /\ join_type = "outer"
  /\ download.file_name = "outer_joined_data.xlsx"

\* row i of the first table appears n times in the merged table
Appears1(i) == Cardinality({p \in 1..Len(Rows) : Rows[p][1] = i})
Appears2(j) == Cardinality({p \in 1..Len(Rows) : Rows[p][2] = j})

====
